---- MODULE Spec2Model ----
(***************************************************************************)
(* Model of app/sounds.js: a module-private table `audio` of five          *)
(* HTMLAudioElement objects and the two exported functions playSound and   *)
(* stopSound.  The audio elements are platform objects; their play(),      *)
(* pause(), currentTime setter, playback advancement and end-of-playback   *)
(* are modelled as the media element behaves in normal operation (the      *)
(* resource loads and playback is permitted).                              *)
(***************************************************************************)
EXTENDS Integers, FiniteSets, Sequences, TLC

\* Length of every clip, in playback-position units.
Duration == 2

\* Keys of the `audio` object literal, in source order.
SoundNames == {"alert", "success", "error", "btn-on", "btn-off"}

\* The Audio objects created at module load, identified by their resource path.
Clips == {"/sound/alert.wav", "/sound/success.wav", "/sound/error.wav",
          "/sound/btn_on.ogg", "/sound/btn_off.ogg"}

\* Property names every plain object inherits from Object.prototype
\* (audio["toString"] is a function, not undefined).
InheritedKeys == {"toString"}

\* Arguments the callers may pass: the registered names, a name that is
\* nowhere on the object, and a name found on the prototype chain.
Args == SoundNames \cup {"missing-name"} \cup InheritedKeys

VARIABLES
    audio,      \* the registry: sound name -> Audio object
    media,      \* per Audio object: [paused, currentTime]
    call,       \* the most recent event: which function, its argument,
                \* whether it threw, and the target clip's state before it
    lastOn      \* per sound name: the last function called on it

vars == <<audio, media, call, lastOn>>

\* const audio = { 'alert': new Audio('/sound/alert.wav'), ... }
AudioTable ==
    [n \in SoundNames |->
        CASE n = "alert"   -> "/sound/alert.wav"
          [] n = "success" -> "/sound/success.wav"
          [] n = "error"   -> "/sound/error.wav"
          [] n = "btn-on"  -> "/sound/btn_on.ogg"
          [] n = "btn-off" -> "/sound/btn_off.ogg"]

\* new Audio(path): a media element starts paused at position zero.
NewAudio == [paused |-> TRUE, currentTime |-> 0]

\* audio[sound]: own property, else inherited property, else undefined.
Lookup(obj, key) ==
    IF key \in DOMAIN obj THEN obj[key]
    ELSE IF key \in InheritedKeys THEN "function"
    ELSE "undefined"

\* <value>.play() / <value>.pause() is callable only on an Audio object;
\* on undefined or on a function without that member it throws TypeError.
IsAudio(v) == v \in Clips

\* HTMLMediaElement.play(): if playback has ended, seek to the start; then
\* clear the paused flag.  The position is otherwise left as stored.
MediaPlay(el) ==
    [paused |-> FALSE,
     currentTime |-> IF el.currentTime = Duration THEN 0 ELSE el.currentTime]

\* HTMLMediaElement.pause(): set the paused flag, keep the position.
MediaPause(el) == [el EXCEPT !.paused = TRUE]

\* HTMLMediaElement.currentTime = t
MediaSeek(el, t) == [el EXCEPT !.currentTime = t]

\* Module load: no function has been called yet.
NoCall ==
    [op |-> "load", arg |-> "", threw |-> FALSE, before |-> NewAudio, prev |-> "none"]

\* A step of the platform's audio pipeline, not a call of this module.
PlatformEvent ==
    [op |-> "platform", arg |-> "", threw |-> FALSE, before |-> NewAudio, prev |-> "none"]

Init ==
    /\ audio = AudioTable
    /\ media = [c \in Clips |-> NewAudio]
    /\ call = NoCall
    /\ lastOn = [n \in SoundNames |-> "none"]

\* Variant: the failure is caught inside the module and not reported.
Throw_Swallowed(fn, sound) ==
    /\ call' = [op |-> fn, arg |-> sound, threw |-> FALSE, before |-> NewAudio,
                prev |-> "none"]
    /\ UNCHANGED <<audio, media, lastOn>>

\* The call threw at the member access/call on a non-Audio value: nothing
\* was executed after the throw.
Throw(fn, sound) ==
    /\ call' = [op |-> fn, arg |-> sound, threw |-> TRUE, before |-> NewAudio,
                prev |-> "none"]
    /\ UNCHANGED <<audio, media, lastOn>>

\* Variant: playSound calls pause() instead of play().
playSound_Pause(sound) ==
    LET a == Lookup(audio, sound) IN
    IF ~IsAudio(a) THEN Throw("playSound", sound)
    ELSE /\ media' = [media EXCEPT ![a] = MediaPause(media[a])]
         /\ call' = [op |-> "playSound", arg |-> sound, threw |-> FALSE,
                     before |-> media[a], prev |-> lastOn[sound]]
         /\ lastOn' = [lastOn EXCEPT ![sound] = "playSound"]
         /\ UNCHANGED audio

\* Variant: playSound rewinds the clip before playing it.
playSound_Rewind(sound) ==
    LET a == Lookup(audio, sound) IN
    IF ~IsAudio(a) THEN Throw("playSound", sound)
    ELSE /\ media' = [media EXCEPT ![a] = MediaPlay(MediaSeek(media[a], 0))]
         /\ call' = [op |-> "playSound", arg |-> sound, threw |-> FALSE,
                     before |-> media[a], prev |-> lastOn[sound]]
         /\ lastOn' = [lastOn EXCEPT ![sound] = "playSound"]
         /\ UNCHANGED audio

\* Variant: playSound pauses a clip that is already playing.
playSound_Toggle(sound) ==
    LET a == Lookup(audio, sound) IN
    IF ~IsAudio(a) THEN Throw("playSound", sound)
    ELSE /\ media' = [media EXCEPT ![a] =
                        IF media[a].paused THEN MediaPlay(media[a])
                        ELSE MediaPause(media[a])]
         /\ call' = [op |-> "playSound", arg |-> sound, threw |-> FALSE,
                     before |-> media[a], prev |-> lastOn[sound]]
         /\ lastOn' = [lastOn EXCEPT ![sound] = "playSound"]
         /\ UNCHANGED audio

\* export function playSound(sound) { audio[sound].play(); }
playSound(sound) ==
    LET a == Lookup(audio, sound) IN
    IF ~IsAudio(a) THEN Throw("playSound", sound)
    ELSE /\ media' = [media EXCEPT ![a] = MediaPlay(media[a])]
         /\ call' = [op |-> "playSound", arg |-> sound, threw |-> FALSE,
                     before |-> media[a], prev |-> lastOn[sound]]
         /\ lastOn' = [lastOn EXCEPT ![sound] = "playSound"]
         /\ UNCHANGED audio

\* Variant: stopSound rewinds the clip without pausing it.
stopSound_NoPause(sound) ==
    LET a == Lookup(audio, sound) IN
    IF ~IsAudio(a) THEN Throw("stopSound", sound)
    ELSE /\ media' = [media EXCEPT ![a] = MediaSeek(media[a], 0)]
         /\ call' = [op |-> "stopSound", arg |-> sound, threw |-> FALSE,
                     before |-> media[a], prev |-> lastOn[sound]]
         /\ lastOn' = [lastOn EXCEPT ![sound] = "stopSound"]
         /\ UNCHANGED audio

\* Variant: stopSound pauses the clip without rewinding it.
stopSound_NoRewind(sound) ==
    LET a == Lookup(audio, sound) IN
    IF ~IsAudio(a) THEN Throw("stopSound", sound)
    ELSE /\ media' = [media EXCEPT ![a] = MediaPause(media[a])]
         /\ call' = [op |-> "stopSound", arg |-> sound, threw |-> FALSE,
                     before |-> media[a], prev |-> lastOn[sound]]
         /\ lastOn' = [lastOn EXCEPT ![sound] = "stopSound"]
         /\ UNCHANGED audio

\* Variant: stopSound resumes a clip that is already paused.
stopSound_Toggle(sound) ==
    LET a == Lookup(audio, sound) IN
    IF ~IsAudio(a) THEN Throw("stopSound", sound)
    ELSE /\ media' = [media EXCEPT ![a] = MediaSeek(IF media[a].paused THEN MediaPlay(media[a]) ELSE MediaPause(media[a]), 0)]
         /\ call' = [op |-> "stopSound", arg |-> sound, threw |-> FALSE,
                     before |-> media[a], prev |-> lastOn[sound]]
         /\ lastOn' = [lastOn EXCEPT ![sound] = "stopSound"]
         /\ UNCHANGED audio

\* Variant: stopSound stops every clip of the table.
stopSound_All(sound) ==
    LET a == Lookup(audio, sound) IN
    IF ~IsAudio(a) THEN Throw("stopSound", sound)
    ELSE /\ media' = [c \in Clips |-> MediaSeek(MediaPause(media[c]), 0)]
         /\ call' = [op |-> "stopSound", arg |-> sound, threw |-> FALSE,
                     before |-> media[a], prev |-> lastOn[sound]]
         /\ lastOn' = [lastOn EXCEPT ![sound] = "stopSound"]
         /\ UNCHANGED audio

\* Variant: stopSound stores another clip under the name it stopped.
stopSound_Rebind(sound) ==
    LET a == Lookup(audio, sound) IN
    IF ~IsAudio(a) THEN Throw("stopSound", sound)
    ELSE /\ media' = [media EXCEPT ![a] = MediaSeek(MediaPause(media[a]), 0)]
         /\ call' = [op |-> "stopSound", arg |-> sound, threw |-> FALSE,
                     before |-> media[a], prev |-> lastOn[sound]]
         /\ lastOn' = [lastOn EXCEPT ![sound] = "stopSound"]
         /\ audio' = [audio EXCEPT ![sound] = audio["alert"]]

\* export function stopSound(sound) {
\*     audio[sound].pause();
\*     audio[sound].currentTime = 0;
\* }
stopSound(sound) ==
    LET a == Lookup(audio, sound) IN
    IF ~IsAudio(a) THEN Throw("stopSound", sound)
    ELSE LET m1 == [media EXCEPT ![a] = MediaPause(media[a])]
             b  == Lookup(audio, sound)
             m2 == [m1 EXCEPT ![b] = MediaSeek(m1[b], 0)]
         IN /\ media' = m2
            /\ call' = [op |-> "stopSound", arg |-> sound, threw |-> FALSE,
                        before |-> media[a], prev |-> lastOn[sound]]
            /\ lastOn' = [lastOn EXCEPT ![sound] = "stopSound"]
            /\ UNCHANGED audio

\* Platform: a clip that is not paused and has not reached its end advances.
Advance(c) ==
    /\ ~media[c].paused
    /\ media[c].currentTime < Duration
    /\ media' = [media EXCEPT ![c].currentTime = @ + 1]
    /\ call' = PlatformEvent
    /\ UNCHANGED <<audio, lastOn>>

\* Platform: the task queued when playback reaches the end of a non-looping
\* clip sets the paused flag; the position stays at the end.
EndOfPlayback(c) ==
    /\ ~media[c].paused
    /\ media[c].currentTime = Duration
    /\ media' = [media EXCEPT ![c].paused = TRUE]
    /\ call' = PlatformEvent
    /\ UNCHANGED <<audio, lastOn>>

Next ==
    \/ \E sound \in Args : playSound(sound)
    \/ \E sound \in Args : stopSound(sound)
    \/ \E c \in Clips : Advance(c)
    \/ \E c \in Clips : EndOfPlayback(c)

Spec == Init /\ [][Next]_vars

TypeOK ==
    /\ audio \in [SoundNames -> Clips]
    /\ media \in [Clips -> [paused : BOOLEAN, currentTime : 0..Duration]]
    /\ call.op \in {"load", "platform", "playSound", "stopSound"}
    /\ lastOn \in [SoundNames -> {"none", "playSound", "stopSound"}]

(***************************************************************************)
(* Properties                                                              *)
(***************************************************************************)

\* The clip a registered name refers to, and its state.
ClipOf(n) == media[audio[n]]
Idle0 == [paused |-> TRUE, currentTime |-> 0]
IsCall(ev) == ev.op \in {"playSound", "stopSound"}

\* C1: right after stopSound(N) returns for a registered N, whatever the
\* clip's state was before (idle or playing, any position), the call did not
\* throw and clip N is paused with position zero.
C1_StopLeavesIdleAtZero ==
    (call.op = "stopSound" /\ call.arg \in SoundNames) =>
        /\ ~call.threw
        /\ ClipOf(call.arg).paused
        /\ ClipOf(call.arg).currentTime = 0

\* C1 witness: stopSound has just returned for a clip that was playing at a
\* non-zero position after a playSound on the same name.
C1_Witness ==
    /\ call.op = "stopSound" /\ ~call.threw
    /\ call.prev = "playSound"
    /\ ~call.before.paused /\ call.before.currentTime = 1

\* C2: playSound(N) and stopSound(N) with N not a registered name throw, and
\* the step leaves the table and every clip's paused flag and position as
\* they were (for stopSound: neither the pause nor the reset is applied).
C2_UnknownNameThrowsNoChange ==
    [][(IsCall(call') /\ call'.arg \notin SoundNames) =>
           /\ call'.threw
           /\ media' = media
           /\ audio' = audio
           /\ lastOn' = lastOn]_vars

\* C2 witness: stopSound on an unregistered name has just thrown while a
\* clip is playing at a non-zero position.
C2_Witness ==
    /\ call.op = "stopSound" /\ call.threw /\ call.arg \notin SoundNames
    /\ \E c \in Clips : ~media[c].paused /\ media[c].currentTime = 1

\* C3: stopSound is idempotent on registered names: a stopSound(N) directly
\* after a stopSound(N) does not throw and changes no clip; and stopSound(N)
\* on a clip whose last call was not playSound (never played, or already
\* stopped) does not throw and leaves it idle at position zero as before.
C3_StopIdempotent ==
    [][/\ (/\ call.op = "stopSound" /\ ~call.threw
           /\ call'.op = "stopSound" /\ call'.arg = call.arg) =>
              (~call'.threw /\ media' = media)
       /\ (/\ call'.op = "stopSound" /\ call'.arg \in SoundNames
           /\ call'.prev # "playSound") =>
              /\ ~call'.threw
              /\ call'.before = Idle0
              /\ media'[audio'[call'.arg]] = Idle0]_vars

\* C3 witness: stopSound has just returned a second time in a row for a
\* name, while another clip is playing.
C3_Witness ==
    /\ call.op = "stopSound" /\ ~call.threw /\ call.prev = "stopSound"
    /\ \E c \in Clips : ~media[c].paused

\* C4: right after playSound(N) for a registered N the call did not throw
\* and clip N is playing (not paused), also when it was already playing.
C4_PlayLeavesPlaying ==
    (call.op = "playSound" /\ call.arg \in SoundNames) =>
        (~call.threw /\ ~ClipOf(call.arg).paused)

\* C4 witness: playSound has just returned for a clip that was already
\* playing because of an earlier playSound.
C4_Witness ==
    /\ call.op = "playSound" /\ ~call.threw
    /\ call.prev = "playSound" /\ ~call.before.paused

C6_RegistryImmutable ==
    /\ DOMAIN audio = SoundNames
    /\ audio = AudioTable
    /\ \A n, m \in SoundNames : n # m => audio[n] # audio[m]

\* C6 witness: both functions have been called with registered names, and
\* the latest call was one with an unregistered name.
C6_Witness ==
    /\ IsCall(call) /\ call.threw
    /\ \E n \in SoundNames : lastOn[n] = "playSound"
    /\ \E n \in SoundNames : lastOn[n] = "stopSound"

\* A change of clip c's paused flag in this step.
Started(c) == media[c].paused /\ ~media'[c].paused
Halted(c) == ~media[c].paused /\ media'[c].paused
ByCall(fn, c) ==
    call'.op = fn /\ ~call'.threw /\ call'.arg \in SoundNames /\ audio[call'.arg] = c

\* C7 as stated: a clip goes from idle to playing only by playSound on its
\* name and from playing to idle only by stopSound on its name.
C7_Original_OnlyCallsChangeState ==
    [][\A c \in Clips :
          /\ Started(c) => ByCall("playSound", c)
          /\ Halted(c) => ByCall("stopSound", c)]_vars

\* C7 amended: a clip goes from idle to playing only by playSound on its
\* name, and from playing to idle only by stopSound on its name or by the
\* platform when playback has reached the end of the clip.
C7_StateTransitions ==
    [][\A c \in Clips :
          /\ Started(c) => ByCall("playSound", c)
          /\ Halted(c) =>
                \/ ByCall("stopSound", c)
                \/ (call'.op = "platform" /\ media[c].currentTime = Duration)]_vars

\* C7 witness: the platform has just ended a clip's playback while another
\* clip, started by playSound, is still playing.
C7_Witness ==
    /\ call.op = "platform"
    /\ \E c \in Clips : media[c].paused /\ media[c].currentTime = Duration
    /\ \E c \in Clips : ~media[c].paused /\ media[c].currentTime < Duration

\* C8 as stated: the state of clip N is determined by the last call on N:
\* playing if it was playSound, idle at position zero if it was stopSound.
C8_Original_LastCallWins ==
    \A n \in SoundNames :
        /\ lastOn[n] = "playSound" => ~ClipOf(n).paused
        /\ lastOn[n] = "stopSound" => ClipOf(n) = Idle0

\* C8 amended: if the last call on N was stopSound, clip N is idle at
\* position zero; if it was playSound, clip N is playing, or its playback has
\* since run to the end and it is idle at its duration.
C8_LastCallWins ==
    \A n \in SoundNames :
        /\ lastOn[n] = "playSound" =>
              \/ ~ClipOf(n).paused
              \/ ClipOf(n).currentTime = Duration
        /\ lastOn[n] = "stopSound" => ClipOf(n) = Idle0

\* C8 witness: a name whose calls were play, stop, ..., with stopSound last,
\* next to a name whose last call was playSound and whose clip has advanced.
C8_Witness ==
    /\ \E n \in SoundNames :
          lastOn[n] = "stopSound" /\ call.arg = n /\ call.prev = "playSound"
    /\ \E n \in SoundNames :
          lastOn[n] = "playSound" /\ ClipOf(n).currentTime = 1

\* C9: a call of playSound or stopSound changes no clip other than the one
\* registered under its argument.
C9_Frame ==
    [][IsCall(call') =>
          \A m \in SoundNames :
              m # call'.arg => media'[audio[m]] = media[audio[m]]]_vars

\* C9 witness: stopSound has just stopped one clip while two other clips
\* keep playing, one of them at a non-zero position.
C9_Witness ==
    /\ call.op = "stopSound" /\ ~call.threw /\ ~call.before.paused
    /\ \E m1, m2 \in SoundNames \ {call.arg} :
          /\ m1 # m2
          /\ ~ClipOf(m1).paused /\ ClipOf(m1).currentTime = 1
          /\ ~ClipOf(m2).paused

\* C10 as stated: a clip that is not playing has position zero.
C10_Original_IdleAtZero ==
    \A c \in Clips : media[c].paused => media[c].currentTime = 0

\* C10 amended: a clip that is not playing has position zero, or its
\* playback ran to the end and its position is the clip's duration; no clip
\* is ever paused at a position strictly in between.
C10_IdleAtZeroOrEnded ==
    \A c \in Clips : media[c].paused => media[c].currentTime \in {0, Duration}

\* C10 witness: stopSound has just stopped a clip in mid-playback, and some
\* other clip rests at its end.
C10_Witness ==
    /\ call.op = "stopSound" /\ call.before.currentTime \notin {0, Duration}
    /\ \E c \in Clips : media[c].paused /\ media[c].currentTime = Duration

====
